---- MODULE Spec2Model ----
(***************************************************************************)
(* A model of the enhancement simulator of src/main.rs: the rate model     *)
(* (generate_rates and the gen_* functions), the transition engine (roll,  *)
(* apply_result), the actor (EnhancerSimulation::enhance) and the          *)
(* population loop of main (enhance_many until it returns true).           *)
(*                                                                         *)
(* f32 values are fixed-point integers: the integer v stands for the real  *)
(* v / Unit, and a product is rounded to the nearest representable value.  *)
(* A Vec is a sequence; Vec index i is sequence index i + 1.               *)
(***************************************************************************)
EXTENDS Integers, Sequences, FiniteSets, TLC

VARIABLES
  params,       \* the EnhancerParams record handed to generate_rates
  rates,        \* the Vec<EnhanceRate> generate_rates returned
  simulations,  \* main's Vec<EnhancerSimulation>
  pc,           \* main's position
  idx,          \* enhance_many: position of its `for sim in simulations`
  round_maxed,  \* enhance_many: its local all_maxed
  all_maxed,    \* main: its local all_maxed
  iterations,   \* main: its local iterations
  call,         \* what the last call of enhance (or roll) did
  scatter,      \* draw_scatter_plot: what scatterplot_data returned
  boxes         \* draw_box_plot: what boxplot_data returned

vars == <<params, rates, simulations, pc, idx, round_maxed, all_maxed, iterations, call,
          scatter, boxes>>

----------------------------------------------------------------------------
(* Bounds of the model *)

\* population sizes 0..MaxActors
MaxActors == 2
\* main starts at most MaxRounds rounds
MaxRounds == 4
\* the parameter grid has max_level up to MaxLevel
MaxLevel == 3
\* the uniform sample is drawn from SampleGrid evenly spaced points of [0,1)
SampleGrid == 5
\* the rate model's checks draw the sample from RollGrid points of [0,1)
RollGrid == 20
\* the unbounded run loop records counts above MaxCount as MaxCount
MaxCount == 1
\* the population of the unbounded run loop has at most MaxLiveActors actors
MaxLiveActors == 1
\* usize is modelled UsizeBits wide (every Vec of the model is far shorter)
UsizeBits == 16

----------------------------------------------------------------------------
(* Numbers *)

\* the f32 1.0
Unit == 10000

\* f32 multiplication: the product, rounded to nearest
mul(a, b) == (a * b + (Unit \div 2)) \div Unit

\* f32::max
f32_max(a, b) == IF a >= b THEN a ELSE b

\* `x as usize` of an i32: the two's complement value, sign-extended
as_usize(x) == IF x < 0 THEN x + 2 ^ UsizeBits ELSE x

\* Vec indexing v[i]
At(v, i) == v[i + 1]

\* the samples thread_rng().gen::<f32>() is drawn from: points of [0,1)
Samples(n) == { (k * Unit) \div n : k \in 0 .. n - 1 }
SampleSet == Samples(SampleGrid)

\* the sample recorded when none was drawn: a draw is below 1.0
NoSample == Unit

----------------------------------------------------------------------------
(* Rate model *)

RECURSIVE value_loop(_, _, _)
value_loop(value, increment, n) ==
  IF n <= 0 THEN value ELSE value_loop(value + increment, increment, n - 1)

gen_value(p, level) == value_loop(p.min_value, p.value_increment, level)

RECURSIVE upgrade_loop(_, _, _)
upgrade_loop(upgrade_rate, p, n) ==
  IF n <= 0 THEN upgrade_rate
  ELSE upgrade_loop(f32_max(p.min_upgrade_rate, mul(upgrade_rate, p.upgrade_rate_curve)), p, n - 1)

gen_upgrade_rate(p, level) ==
  IF level >= p.max_level THEN 0
  ELSE upgrade_loop(p.max_upgrade_rate, p, level)

RECURSIVE downgrade_loop(_, _, _)
downgrade_loop(downgrade_rate, p, n) ==
  IF n <= 0 THEN downgrade_rate
  ELSE downgrade_loop(mul(downgrade_rate, p.downgrade_rate_curve), p, n - 1)

\* gen_downgrade_rate multiplying `level` times, as gen_upgrade_rate does
gen_downgrade_rate_decaying(p, level) ==
  IF level >= p.max_level THEN 0
  ELSE IF level < p.min_downgrade_level THEN 0
  ELSE downgrade_loop(p.max_downgrade_rate, p, level)

\* gen_downgrade_rate with its first guard off by one (level > max_level)
gen_downgrade_rate_above_max(p, level) ==
  IF level > p.max_level THEN 0
  ELSE IF level < p.min_downgrade_level THEN 0
  ELSE downgrade_loop(p.max_downgrade_rate, p, p.max_level - level - 1)

gen_downgrade_rate(p, level) ==
  IF level >= p.max_level THEN 0
  ELSE IF level < p.min_downgrade_level THEN 0
  ELSE downgrade_loop(p.max_downgrade_rate, p, p.max_level - level - 1)

\* gen_halve_rate with its floor off by one (level <= min_halve_level)
gen_halve_rate_at_floor(p, level) ==
  IF level <= p.min_halve_level THEN 0
  ELSE mul(gen_downgrade_rate(p, level), p.halve_ratio)

gen_halve_rate(p, level) ==
  IF level < p.min_halve_level THEN 0
  ELSE mul(gen_downgrade_rate(p, level), p.halve_ratio)

gen_reset_rate(p, level) ==
  IF level < p.min_reset_level THEN 0
  ELSE mul(gen_downgrade_rate(p, level), p.reset_ratio)

\* Vec::with_capacity(count as usize) panics (capacity overflow) on a negative count
capacity_overflow(count) == count < 0

generate_rates(p) ==
  LET count == p.max_level + 1
  IN  [ i \in 1 .. count |->
          LET level == i - 1
          IN  [ level     |-> level,
                value     |-> gen_value(p, level),
                upgrade   |-> gen_upgrade_rate(p, level),
                downgrade |-> gen_downgrade_rate(p, level),
                halve     |-> gen_halve_rate(p, level),
                reset     |-> gen_reset_rate(p, level) ] ]

no_change_rate(rate) == Unit - (rate.reset + rate.halve + rate.downgrade + rate.upgrade)

----------------------------------------------------------------------------
(* Transition engine *)

\* roll with the Halve threshold tested before the Reset threshold
roll_halve_first(rate, sample) ==
  IF sample < rate.halve THEN "Halve"
  ELSE IF sample < rate.halve + rate.reset THEN "Reset"
  ELSE IF sample < rate.reset + rate.halve + rate.downgrade THEN "Downgrade"
  ELSE IF sample < rate.reset + rate.halve + rate.downgrade + rate.upgrade THEN "Upgrade"
  ELSE "NoChange"

roll(rate, sample) ==
  IF sample < rate.reset THEN "Reset"
  ELSE IF sample < rate.reset + rate.halve THEN "Halve"
  ELSE IF sample < rate.reset + rate.halve + rate.downgrade THEN "Downgrade"
  ELSE IF sample < rate.reset + rate.halve + rate.downgrade + rate.upgrade THEN "Upgrade"
  ELSE "NoChange"

\* i32 division by 2 truncates toward zero
half(level) == IF level >= 0 THEN level \div 2 ELSE -((-level) \div 2)

apply_result(level, result) ==
  CASE result = "NoChange"  -> level
    [] result = "Downgrade" -> level - 1
    [] result = "Halve"     -> half(level)
    [] result = "Reset"     -> 0
    [] result = "Upgrade"   -> level + 1

----------------------------------------------------------------------------
(* Actor *)

\* EnhancerSimulation::create
create == [ level |-> 0, attempt_count |-> 0, history |-> <<0>> ]

\* EnhancerSimulation::create_many
create_many(count) == [ k \in 1 .. count |-> create ]

\* rates.len() - 1 on an empty table: a debug build panics on the subtraction;
\* a release build wraps it to usize::MAX and then panics on rates[i], i = 0
enhance_panics(self, rs) == Len(rs) = 0

\* the record enhance yields after an attempt with outcome `result`; `push` says
\* whether the new attempt_count is appended to the history
attempted(self, result, push) ==
  LET level         == apply_result(self.level, result)
      attempt_count == self.attempt_count + 1
  IN  [ self   |-> [ level |-> level, attempt_count |-> attempt_count,
                     history |-> IF push THEN Append(self.history, attempt_count)
                                 ELSE self.history ],
        ret    |-> FALSE,
        rolled |-> TRUE,
        result |-> result ]

\* enhance counting the attempt before its short-circuit test
enhance_counts_first(self, rs, sample) ==
  LET i == as_usize(self.level)
  IN  IF i >= Len(rs) - 1
      THEN [ self |-> [ self EXCEPT !.attempt_count = @ + 1 ],
             ret |-> TRUE, rolled |-> FALSE, result |-> "None" ]
      ELSE LET result == roll(At(rs, i), sample)
           IN  attempted(self, result,
                         as_usize(apply_result(self.level, result)) = Len(self.history))

\* enhance appending the attempt_count of before the attempt to the history
enhance_push_stale_count(self, rs, sample) ==
  LET i == as_usize(self.level)
  IN  IF i >= Len(rs) - 1
      THEN [ self |-> self, ret |-> TRUE, rolled |-> FALSE, result |-> "None" ]
      ELSE LET result == roll(At(rs, i), sample)
               level  == apply_result(self.level, result)
           IN  [ self   |-> [ level |-> level, attempt_count |-> self.attempt_count + 1,
                              history |-> IF as_usize(level) = Len(self.history)
                                          THEN Append(self.history, self.attempt_count)
                                          ELSE self.history ],
                 ret    |-> FALSE,
                 rolled |-> TRUE,
                 result |-> result ]

\* enhance with its short-circuit off by one (i >= rates.len())
enhance_late_short_circuit(self, rs, sample) ==
  LET i == as_usize(self.level)
  IN  IF i >= Len(rs)
      THEN [ self |-> self, ret |-> TRUE, rolled |-> FALSE, result |-> "None" ]
      ELSE LET result == roll(At(rs, i), sample)
           IN  attempted(self, result,
                         as_usize(apply_result(self.level, result)) = Len(self.history))

\* enhance appending to the history on every Upgrade
enhance_push_on_upgrade(self, rs, sample) ==
  LET i == as_usize(self.level)
  IN  IF i >= Len(rs) - 1
      THEN [ self |-> self, ret |-> TRUE, rolled |-> FALSE, result |-> "None" ]
      ELSE LET result == roll(At(rs, i), sample)
           IN  attempted(self, result, result = "Upgrade")

\* enhance whose short-circuit reports false
enhance_never_reports_max(self, rs, sample) ==
  LET i == as_usize(self.level)
  IN  IF i >= Len(rs) - 1
      THEN [ self |-> self, ret |-> FALSE, rolled |-> FALSE, result |-> "None" ]
      ELSE LET result == roll(At(rs, i), sample)
           IN  attempted(self, result,
                         as_usize(apply_result(self.level, result)) = Len(self.history))

\* EnhancerSimulation::enhance: the actor after the call, the value returned,
\* whether a sample was drawn and the outcome rolled
enhance(self, rs, sample) ==
  LET i == as_usize(self.level)
  IN  IF i >= Len(rs) - 1
      THEN [ self |-> self, ret |-> TRUE, rolled |-> FALSE, result |-> "None" ]
      ELSE LET rate          == At(rs, i)
               result        == roll(rate, sample)
               level         == apply_result(self.level, result)
               attempt_count == self.attempt_count + 1
               history       == IF as_usize(level) = Len(self.history)
                                THEN Append(self.history, attempt_count)
                                ELSE self.history
           IN  [ self   |-> [ level |-> level, attempt_count |-> attempt_count,
                              history |-> history ],
                 ret    |-> FALSE,
                 rolled |-> TRUE,
                 result |-> result ]

----------------------------------------------------------------------------
(* Aggregator *)

\* boxplot_data: `for i in 0..history.len()` from index i on; history[i] as f64
\* is exact for an i32
RECURSIVE boxplot_history(_, _, _)
boxplot_history(output, history, i) ==
  IF i >= Len(history) THEN output
  ELSE LET pushed == IF i = Len(output) THEN Append(output, <<>>) ELSE output
       IN  boxplot_history([pushed EXCEPT ![i + 1] = Append(@, At(history, i))],
                           history, i + 1)

\* boxplot_data: `for sim in simulations` from actor k on
RECURSIVE boxplot_sims(_, _, _)
boxplot_sims(output, sims, k) ==
  IF k >= Len(sims) THEN output
  ELSE boxplot_sims(boxplot_history(output, At(sims, k).history, 0), sims, k + 1)

boxplot_data(sims) == boxplot_sims(<<>>, sims, 0)

\* scatterplot_data with the pair pushed as (y, x)
RECURSIVE scatterplot_history_swapped(_, _, _)
scatterplot_history_swapped(output, history, i) ==
  IF i >= Len(history) THEN output
  ELSE scatterplot_history_swapped(Append(output, <<At(history, i), i>>), history, i + 1)

\* scatterplot_data: `for i in 0..history.len()` from index i on; i as f64 and
\* history[i] as f64 are exact
RECURSIVE scatterplot_history(_, _, _)
scatterplot_history(output, history, i) ==
  IF i >= Len(history) THEN output
  ELSE scatterplot_history(Append(output, <<i, At(history, i)>>), history, i + 1)

\* scatterplot_data: `for sim in simulations` from actor k on
RECURSIVE scatterplot_sims(_, _, _)
scatterplot_sims(output, sims, k) ==
  IF k >= Len(sims) THEN output
  ELSE scatterplot_sims(scatterplot_history(output, At(sims, k).history, 0), sims, k + 1)

scatterplot_data(sims) == scatterplot_sims(<<>>, sims, 0)

----------------------------------------------------------------------------
(* Parameter records *)

default_params ==
  [ max_level |-> 10, value_increment |-> 1250, min_value |-> 10000,
    upgrade_rate_curve |-> 5000, max_upgrade_rate |-> 10000, min_upgrade_rate |-> 1250,
    downgrade_rate_curve |-> 5000, max_downgrade_rate |-> 5000,
    halve_ratio |-> 2500, reset_ratio |-> 625,
    min_downgrade_level |-> 1, min_halve_level |-> 3, min_reset_level |-> 5 ]

\* the worked scenario: Downgrade is selectable at level 0
scenario_params ==
  [ max_level |-> 2, value_increment |-> 10000, min_value |-> 0,
    upgrade_rate_curve |-> 5000, max_upgrade_rate |-> 8000, min_upgrade_rate |-> 1000,
    downgrade_rate_curve |-> 5000, max_downgrade_rate |-> 4000,
    halve_ratio |-> 5000, reset_ratio |-> 2500,
    min_downgrade_level |-> 0, min_halve_level |-> 1, min_reset_level |-> 2 ]

\* a short table on which every outcome is rolled below max_level
small_params ==
  [ default_params EXCEPT !.max_level = 3, !.max_upgrade_rate = 8000,
      !.max_downgrade_rate = 4000, !.halve_ratio = 5000, !.reset_ratio = 2500,
      !.min_halve_level = 2, !.min_reset_level = 2 ]

\* upgrade probability 0 at every level
stuck_params ==
  [ small_params EXCEPT !.max_level = 2, !.max_upgrade_rate = 0, !.min_upgrade_rate = 0 ]

\* a table of the terminal level alone, and an empty table
zero_params == [ small_params EXCEPT !.max_level = 0 ]
empty_params == [ small_params EXCEPT !.max_level = -1 ]

\* upgrade probability positive at level 0 and 0 from level 1 on
blocked_params ==
  [ small_params EXCEPT !.upgrade_rate_curve = 0, !.min_upgrade_rate = 0 ]

SimParams ==
  { default_params, scenario_params, small_params, stuck_params, zero_params, empty_params }

\* the parameter records the rate model is checked on
ParamGrid ==
  [ max_level : -2 .. MaxLevel,
    value_increment : { 1250 }, min_value : { 10000 },
    upgrade_rate_curve : { 5000, 10000 },
    max_upgrade_rate : { 0, 8000, 10000 },
    min_upgrade_rate : { 1250 },
    downgrade_rate_curve : { 2500, 5000, 10000 },
    max_downgrade_rate : { 0, 4000, 10000 },
    halve_ratio : { 0, 5000 }, reset_ratio : { 2500, 10000 },
    min_downgrade_level : { 0, 1 }, min_halve_level : { 0, 2 },
    min_reset_level : { 1, 3 } ]

----------------------------------------------------------------------------
(* The program *)

NoCall == [ sim |-> 0, from |-> 0, sample |-> NoSample, result |-> "None",
            ret |-> FALSE, rolled |-> FALSE ]

InitWith(ps) ==
  /\ params \in ps
  /\ rates = <<>>
  /\ simulations = <<>>
  /\ pc = "generate"
  /\ idx = 0
  /\ round_maxed = FALSE
  /\ all_maxed = FALSE
  /\ iterations = 0
  /\ call = NoCall
  /\ scatter = <<>>
  /\ boxes = <<>>

Init == InitWith(SimParams)

\* main: let rates = generate_rates(params)
GenerateRates ==
  /\ pc = "generate"
  /\ IF capacity_overflow(params.max_level + 1)
     THEN pc' = "panic" /\ UNCHANGED rates
     ELSE pc' = "create" /\ rates' = generate_rates(params)
  /\ UNCHANGED <<params, simulations, idx, round_maxed, all_maxed, iterations, call, scatter, boxes>>

\* main: let mut simulations = create_many(&rates, count)
CreateMany ==
  /\ pc = "create"
  /\ \E count \in 0 .. MaxActors : simulations' = create_many(count)
  /\ pc' = "loop"
  /\ UNCHANGED <<params, rates, idx, round_maxed, all_maxed, iterations, call, scatter, boxes>>

\* main: while !all_maxed { iterations += 1; enhance_many(..) is entered
StartRound ==
  /\ pc = "loop"
  /\ ~all_maxed
  /\ iterations < MaxRounds
  /\ iterations' = iterations + 1
  /\ pc' = "round"
  /\ idx' = 0
  /\ round_maxed' = TRUE
  /\ UNCHANGED <<params, rates, simulations, all_maxed, call, scatter, boxes>>

\* the loop body of enhance_many with the actors' state shared: the attempt of
\* one actor is written to every actor
EnhanceSharedState ==
  /\ pc = "round"
  /\ idx < Len(simulations)
  /\ \E sample \in SampleSet :
       LET self == At(simulations, idx)
           r    == enhance(self, rates, sample)
       IN  /\ simulations' = [ k \in DOMAIN simulations |-> r.self ]
           /\ round_maxed' = IF r.ret THEN round_maxed ELSE FALSE
           /\ idx' = idx + 1
           /\ call' = [ sim |-> idx, from |-> self.level,
                        sample |-> IF r.rolled THEN sample ELSE NoSample,
                        result |-> r.result, ret |-> r.ret, rolled |-> r.rolled ]
  /\ UNCHANGED <<params, rates, pc, all_maxed, iterations, scatter, boxes>>

\* enhance_many: one pass of `for sim in simulations { if !sim.enhance() .. }`
Enhance ==
  /\ pc = "round"
  /\ idx < Len(simulations)
  /\ LET self == At(simulations, idx)
     IN  IF enhance_panics(self, rates)
         THEN /\ pc' = "panic"
              /\ UNCHANGED <<simulations, idx, round_maxed, call>>
         ELSE \E sample \in SampleSet :
                LET r == enhance(self, rates, sample)
                IN  /\ simulations' = [simulations EXCEPT ![idx + 1] = r.self]
                    /\ round_maxed' = IF r.ret THEN round_maxed ELSE FALSE
                    /\ idx' = idx + 1
                    /\ call' = [ sim |-> idx, from |-> self.level,
                                 sample |-> IF r.rolled THEN sample ELSE NoSample,
                                 result |-> r.result, ret |-> r.ret, rolled |-> r.rolled ]
                    /\ pc' = pc
  /\ UNCHANGED <<params, rates, all_maxed, iterations, scatter, boxes>>

\* enhance_many returns all_maxed to main
EnhanceManyReturn ==
  /\ pc = "round"
  /\ idx = Len(simulations)
  /\ all_maxed' = round_maxed
  /\ pc' = "loop"
  /\ UNCHANGED <<params, rates, simulations, idx, round_maxed, iterations, call, scatter, boxes>>

\* main: the while loop exits
LoopExit ==
  /\ pc = "loop"
  /\ all_maxed
  /\ pc' = "done"
  /\ UNCHANGED <<params, rates, simulations, idx, round_maxed, all_maxed, iterations, call, scatter, boxes>>

\* main: draw_scatter_plot(&simulations), up to its call of scatterplot_data
DrawScatterPlot ==
  /\ pc = "done"
  /\ scatter' = scatterplot_data(simulations)
  /\ pc' = "scatter_drawn"
  /\ UNCHANGED <<params, rates, simulations, idx, round_maxed, all_maxed, iterations, call,
                 boxes>>

\* main: draw_box_plot(&simulations), up to its call of boxplot_data
DrawBoxPlot ==
  /\ pc = "scatter_drawn"
  /\ boxes' = boxplot_data(simulations)
  /\ pc' = "saved"
  /\ UNCHANGED <<params, rates, simulations, idx, round_maxed, all_maxed, iterations, call,
                 scatter>>

Next ==
  \/ GenerateRates \/ CreateMany \/ StartRound \/ Enhance \/ EnhanceManyReturn \/ LoopExit
  \/ DrawScatterPlot \/ DrawBoxPlot

Spec == Init /\ [][Next]_vars

\* The rate model and the transition engine as pure functions: any parameter
\* record of the grid, then one roll of any sample against any entry of its table
InitRates == InitWith(ParamGrid)

RollRate ==
  /\ pc = "create"
  /\ call = NoCall
  /\ \E i \in 0 .. Len(rates) - 1 : \E sample \in Samples(RollGrid) :
       call' = [ sim |-> 0, from |-> i, sample |-> sample,
                 result |-> roll(At(rates, i), sample), ret |-> FALSE, rolled |-> TRUE ]
  /\ UNCHANGED <<params, rates, simulations, pc, idx, round_maxed, all_maxed, iterations, scatter, boxes>>

NextRates == GenerateRates \/ RollRate

SpecRates == InitRates /\ [][NextRates]_vars

\* The run loop without a bound on its rounds. The i32 counters are far from
\* their range in any run the model follows: a count above MaxCount is recorded
\* as MaxCount, in attempt_count, in the history and in iterations.
count_cap(n) == IF n > MaxCount THEN MaxCount ELSE n

cap_counts(s) ==
  [ level |-> s.level, attempt_count |-> count_cap(s.attempt_count),
    history |-> [ j \in DOMAIN s.history |-> count_cap(s.history[j]) ] ]

LiveParams == { scenario_params, small_params, stuck_params, blocked_params }

InitLive == InitWith(LiveParams)

\* main: EnhancerSimulation::create_many(count, &params)
CreateManyLive ==
  /\ pc = "create"
  /\ \E count \in 0 .. MaxLiveActors : simulations' = create_many(count)
  /\ pc' = "loop"
  /\ UNCHANGED <<params, rates, idx, round_maxed, all_maxed, iterations, call, scatter, boxes>>

\* main's loop with a round cap: no round is started after MaxCount rounds
StartRoundCapped ==
  /\ pc = "loop"
  /\ ~all_maxed
  /\ iterations < MaxCount
  /\ iterations' = count_cap(iterations + 1)
  /\ pc' = "round"
  /\ idx' = 0
  /\ round_maxed' = TRUE
  /\ UNCHANGED <<params, rates, simulations, all_maxed, call, scatter, boxes>>

\* main: while !all_maxed { iterations += 1; enhance_many(..) is entered
StartRoundLive ==
  /\ pc = "loop"
  /\ ~all_maxed
  /\ iterations' = count_cap(iterations + 1)
  /\ pc' = "round"
  /\ idx' = 0
  /\ round_maxed' = TRUE
  /\ UNCHANGED <<params, rates, simulations, all_maxed, call, scatter, boxes>>

\* enhance_many: one pass of its loop, on actor k at level `level` rolling `result`
\* ("None": the call short-circuits)
EnhanceOutcome(k, level, result) ==
  /\ pc = "round"
  /\ idx < Len(simulations)
  /\ idx = k - 1
  /\ At(simulations, idx).level = level
  /\ ~enhance_panics(At(simulations, idx), rates)
  /\ \E sample \in SampleSet :
       LET self == At(simulations, idx)
           r    == enhance(self, rates, sample)
       IN  /\ r.result = result
           /\ simulations' = [simulations EXCEPT ![idx + 1] = cap_counts(r.self)]
           /\ round_maxed' = IF r.ret THEN round_maxed ELSE FALSE
           /\ idx' = idx + 1
           /\ call' = [ sim |-> idx, from |-> self.level,
                        sample |-> IF r.rolled THEN sample ELSE NoSample,
                        result |-> r.result, ret |-> r.ret, rolled |-> r.rolled ]
  /\ UNCHANGED <<params, rates, pc, all_maxed, iterations, scatter, boxes>>

Outcomes == { "NoChange", "Upgrade", "Downgrade", "Halve", "Reset" }

\* the levels an actor of the live parameter records can stand at, and those
\* it can leave
LiveLevels == -1 .. small_params.max_level

NonTerminalLevels == 0 .. small_params.max_level - 1

EnhanceLive ==
  \E k \in 1 .. MaxLiveActors : \E level \in LiveLevels : \E result \in Outcomes \cup { "None" } :
    EnhanceOutcome(k, level, result)

NextLive ==
  \/ GenerateRates \/ CreateManyLive \/ StartRoundLive \/ EnhanceLive \/ EnhanceManyReturn
  \/ LoopExit

\* enhance_many: one pass of its loop that rolls `result` at level `level`
EnhanceAt(level, result) ==
  \E k \in 1 .. MaxLiveActors : EnhanceOutcome(k, level, result)

\* main runs on while it can, and the uniform samples are fair: if Upgrade can
\* be rolled at a level and actors are stepped at that level again and again,
\* Upgrade is rolled there again and again. (With probability 1 the samples
\* give more: the same for every actor and every outcome.)
Fairness ==
  /\ WF_vars(NextLive)
  /\ \A level \in NonTerminalLevels : SF_vars(EnhanceAt(level, "Upgrade"))

SpecLive == InitLive /\ [][NextLive]_vars /\ Fairness

\* The aggregator as pure functions: any finished population of up to MaxActors
\* actors, each with a first-arrival history the actor steps can produce and
\* standing where its history ends
Histories ==
  { h \in UNION { [ 1 .. n -> 0 .. MaxRounds ] : n \in 1 .. MaxLevel + 1 } :
      /\ h[1] = 0
      /\ \A j \in 1 .. Len(h) - 1 : h[j] < h[j + 1] }

Populations ==
  UNION { [ 1 .. n -> { [ level |-> Len(h) - 1, attempt_count |-> h[Len(h)],
                          history |-> h ] : h \in Histories } ] : n \in 0 .. MaxActors }

InitViews ==
  /\ params = [ small_params EXCEPT !.max_level = MaxLevel ]
  /\ rates = generate_rates(params)
  /\ simulations \in Populations
  /\ pc = "done"
  /\ idx = Len(simulations)
  /\ round_maxed = TRUE
  /\ all_maxed = TRUE
  /\ iterations = MaxRounds
  /\ call = NoCall
  /\ scatter = <<>>
  /\ boxes = <<>>

NextViews == DrawScatterPlot \/ DrawBoxPlot

SpecViews == InitViews /\ [][NextViews]_vars

----------------------------------------------------------------------------
(* Properties *)

\* the actors, by sequence index
Actors == 1 .. Len(simulations)

\* the actor the last call of enhance was made on, as that call left it
Called == At(simulations, call.sim)

\* main holds a rate table
RatesBuilt == pc # "generate" /\ ~capacity_overflow(params.max_level + 1)

Max(a, b) == IF a >= b THEN a ELSE b

\* C1: a call of enhance that made an attempt returned true exactly when the
\* level it left the actor at equals max_level.
C1_AttemptReturnsWhetherNewLevelIsMax ==
  (pc = "round" /\ call.rolled) => (call.ret <=> Called.level = params.max_level)

\* C2: once the run loop has exited, every actor is at max_level.
C2_LoopExitsWithAllAtMax ==
  pc = "done" => \A k \in Actors : simulations[k].level = params.max_level

\* C3: for a table of max_level >= 0, every actor's level is in 0..max_level
\* in every reachable state.
C3_LevelWithinTable ==
  params.max_level >= 0 =>
    \A k \in Actors : simulations[k].level \in 0 .. params.max_level

\* C4: an attempt at level 0 whose outcome is Downgrade leaves the actor at
\* level 0.
C4_DowngradeAtZeroIsFloored ==
  (pc = "round" /\ call.rolled /\ call.from = 0 /\ call.result = "Downgrade")
    => Called.level = 0

\* C5: a call of enhance on an actor at max_level returns true, draws no
\* sample and changes nothing of the actor; and no step of the program
\* changes an actor that is at max_level.
C5_MaxLevelIsAbsorbing ==
  [][ /\ \A k \in Actors :
           simulations[k].level = params.max_level =>
             /\ k \in DOMAIN simulations'
             /\ simulations'[k] = simulations[k]
      /\ ( /\ pc = "round"
           /\ idx' = idx + 1
           /\ At(simulations, idx).level = params.max_level )
         => /\ call'.ret
            /\ ~call'.rolled
            /\ call'.sample = NoSample
            /\ simulations' = simulations ]_vars

\* C5 witness: an actor that made attempts has been called at max_level.
C5_Witness ==
  /\ pc = "round"
  /\ call.ret
  /\ call.from = params.max_level
  /\ Called.attempt_count >= params.max_level
  /\ params.max_level >= 2

\* C6: history[0] = 0 and the history is never empty nor shorter than the
\* level requires; a step of the program keeps the entries an actor has,
\* makes the length the larger of the old length and 1 + the new level (so
\* the length is 1 + the highest level occupied so far), and an entry it
\* appends is the new attempt_count, appended for the level just reached.
C6_HistoryHoldsFirstArrivals ==
  /\ [](\A k \in Actors :
          /\ Len(simulations[k].history) >= 1
          /\ simulations[k].history[1] = 0
          /\ simulations[k].level < Len(simulations[k].history))
  /\ [][ \A k \in Actors :
           /\ k \in DOMAIN simulations'
           /\ LET old == simulations[k]
                  new == simulations'[k]
              IN  /\ Len(new.history) = Max(Len(old.history), new.level + 1)
                  /\ SubSeq(new.history, 1, Len(old.history)) = old.history
                  /\ Len(new.history) > Len(old.history) =>
                       /\ new.level = Len(old.history)
                       /\ new.history[new.level + 1] = new.attempt_count ]_vars

\* C6 witness: an Upgrade into a level the actor had reached before appended
\* nothing.
C6_Witness ==
  /\ pc = "round"
  /\ call.rolled
  /\ call.result = "Upgrade"
  /\ Called.level + 1 < Len(Called.history)
  /\ Called.history[Called.level + 1] < Called.attempt_count

\* C7: once the run loop has exited on a non-empty population, every history
\* has max_level + 1 entries, and boxplot_data has max_level + 1 buckets, each
\* as long as the population.
C7_HistoriesCompleteAtExit ==
  (pc = "done" /\ Len(simulations) >= 1) =>
    /\ \A k \in Actors : Len(simulations[k].history) = params.max_level + 1
    /\ Len(boxplot_data(simulations)) = params.max_level + 1
    /\ \A b \in 1 .. Len(boxplot_data(simulations)) :
         Len(boxplot_data(simulations)[b]) = Len(simulations)

\* C8: the outcome rolled for a sample s against a rate record is Reset iff
\* s < reset, Halve iff reset <= s < reset+halve, Downgrade iff reset+halve <= s
\* < reset+halve+downgrade, Upgrade iff that sum <= s < that sum + upgrade, and
\* NoChange otherwise; an outcome of probability 0 is never rolled.
C8_RollByCumulativeThresholds ==
  call.rolled =>
    LET rate == At(rates, call.from)
        s    == call.sample
        r    == rate.reset
        h    == r + rate.halve
        d    == h + rate.downgrade
        u    == d + rate.upgrade
    IN  /\ call.result = "Reset"     <=> s < r
        /\ call.result = "Halve"     <=> (r <= s /\ s < h)
        /\ call.result = "Downgrade" <=> (h <= s /\ s < d)
        /\ call.result = "Upgrade"   <=> (d <= s /\ s < u)
        /\ call.result = "NoChange"  <=> u <= s
        /\ rate.reset = 0     => call.result # "Reset"
        /\ rate.halve = 0     => call.result # "Halve"
        /\ rate.downgrade = 0 => call.result # "Downgrade"
        /\ rate.upgrade = 0   => call.result # "Upgrade"

\* C8 witness: Halve rolled for the sample that is exactly the Reset threshold
\* of a record whose Reset interval is not empty.
C8_Witness ==
  /\ call.rolled
  /\ call.result = "Halve"
  /\ At(rates, call.from).reset > 0
  /\ call.sample = At(rates, call.from).reset
  /\ At(rates, call.from).downgrade > 0
  /\ At(rates, call.from).upgrade > 0

DataModelInvariant(p) ==
  /\ p.max_level >= 0
  /\ \A x \in { p.max_upgrade_rate, p.min_upgrade_rate, p.max_downgrade_rate,
                p.halve_ratio, p.reset_ratio } : 0 <= x /\ x <= Unit
  /\ \A c \in { p.upgrade_rate_curve, p.downgrade_rate_curve } : 0 < c /\ c <= Unit

\* C10: for a parameter record satisfying the data-model invariant, every
\* entry of the table has upgrade + downgrade + halve + reset <= 1.
C10_ProbabilitiesSumToAtMostOne ==
  (RatesBuilt /\ DataModelInvariant(params)) =>
    \A i \in 0 .. Len(rates) - 1 :
      /\ At(rates, i).upgrade + At(rates, i).downgrade
           + At(rates, i).halve + At(rates, i).reset <= Unit
      /\ no_change_rate(At(rates, i)) >= 0

\* a parameter record is a valid configuration: max_level >= 0 and, at every
\* level, no derived probability negative and no threshold sum above 1
ConfigurationValid(p) ==
  /\ p.max_level >= 0
  /\ \A level \in 0 .. p.max_level :
       /\ gen_reset_rate(p, level) >= 0
       /\ gen_halve_rate(p, level) >= 0
       /\ gen_downgrade_rate(p, level) >= 0
       /\ gen_upgrade_rate(p, level) >= 0
       /\ gen_reset_rate(p, level) + gen_halve_rate(p, level)
            + gen_downgrade_rate(p, level) + gen_upgrade_rate(p, level) <= Unit

\* C11: for an invalid configuration generate_rates yields no table (main stays
\* before it or stops in it), no actor is created and no outcome is rolled.
C11_InvalidParametersAreRejected ==
  ~ConfigurationValid(params) =>
    /\ pc \in { "generate", "panic" }
    /\ rates = <<>>
    /\ simulations = <<>>
    /\ ~call.rolled

C18_AttemptTouchesOnlyItsActor ==
  [][ (pc = "round" /\ idx' = idx + 1) =>
        /\ Len(simulations') = Len(simulations)
        /\ \A k \in Actors : k # idx + 1 => simulations'[k] = simulations[k]
        /\ rates' = rates
        /\ params' = params
        /\ call'.sim = idx
        /\ simulations'[idx + 1]
             = enhance(simulations[idx + 1], rates, call'.sample).self ]_vars

\* C18 witness: the second of two actors made an attempt while the first, which
\* has made attempts too, is in another state.
C18_Witness ==
  /\ pc = "round"
  /\ Len(simulations) = 2
  /\ call.rolled
  /\ call.sim = 1
  /\ simulations[1].attempt_count >= 2
  /\ simulations[1].level # simulations[2].level
  /\ simulations[1].history # simulations[2].history

\* a call of enhance on this actor would short-circuit
ShortCircuits(s) == as_usize(s.level) >= Len(rates) - 1

\* C19: with r the number of the last round an actor has been stepped in, the
\* actor's attempt_count is at most r, and is below r only if the actor is
\* absorbed; a call that made an attempt in round r left attempt_count = r, and
\* a call that short-circuited in round r found attempt_count < r.
C19_RoundsAreSynchronized ==
  /\ pc \notin { "generate", "create", "panic" } =>
       \A k \in Actors :
         LET s == simulations[k]
             r == IF pc = "round" /\ k > idx THEN iterations - 1 ELSE iterations
         IN  /\ s.attempt_count <= r
             /\ s.attempt_count < r => ShortCircuits(s)
  /\ (pc = "round" /\ idx >= 1) =>
       /\ call.rolled => Called.attempt_count = iterations
       /\ ~call.rolled => Called.attempt_count < iterations

\* C19 witness: at the end of round 3 or later one actor has attempted in every
\* round and another was absorbed before this round, after attempts of its own.
C19_Witness ==
  /\ pc = "loop"
  /\ iterations >= 3
  /\ Len(simulations) = 2
  /\ simulations[1].attempt_count = iterations
  /\ simulations[2].attempt_count < iterations
  /\ simulations[2].attempt_count >= 2

\* C20: every history is strictly increasing, its entry for level k is at least
\* k, its last entry is at most attempt_count, and an attempt leaves the level
\* at most one above the level it was made at.
C20_HistoryIncreasesByAttempts ==
  /\ \A k \in Actors :
       LET s == simulations[k]
       IN  /\ \A j \in 1 .. Len(s.history) - 1 : s.history[j] < s.history[j + 1]
           /\ \A j \in 1 .. Len(s.history) : s.history[j] >= j - 1
           /\ s.history[Len(s.history)] <= s.attempt_count
  /\ (pc = "round" /\ idx >= 1 /\ call.rolled) => Called.level <= call.from + 1

\* C20 witness: a history of three levels with a gap between two arrivals and
\* attempts made after the last arrival.
C20_Witness ==
  \E k \in Actors :
     LET s == simulations[k]
     IN  /\ Len(s.history) >= 3
         /\ s.history[3] > s.history[2] + 1
         /\ s.attempt_count > s.history[Len(s.history)]

\* the number of history entries of the actors before actor k
RECURSIVE EntriesBefore(_)
EntriesBefore(k) ==
  IF k <= 1 THEN 0 ELSE EntriesBefore(k - 1) + Len(simulations[k - 1].history)

\* the actors that have history index b - 1, in population order
Having(b) == SelectSeq(simulations, LAMBDA s : Len(s.history) >= b)

\* the longest history's length
RECURSIVE LongestHistory(_)
LongestHistory(k) ==
  IF k = 0 THEN 0 ELSE Max(LongestHistory(k - 1), Len(simulations[k].history))

\* C17: what scatterplot_data returned is, actor by actor in population order
\* and index by index, the pair (index, history[index]); bucket k of what
\* boxplot_data returned is history[k] of the actors that have an index k, in
\* population order; applying either again gives the output held; and the steps
\* that apply them leave every actor unchanged.
C17_AggregatorViews ==
  /\ [](pc \in { "scatter_drawn", "saved" } =>
          /\ Len(scatter) = EntriesBefore(Len(simulations) + 1)
          /\ \A k \in Actors : \A i \in 1 .. Len(simulations[k].history) :
               scatter[EntriesBefore(k) + i] = <<i - 1, simulations[k].history[i]>>
          /\ scatterplot_data(simulations) = scatter)
  /\ [](pc = "saved" =>
          /\ Len(boxes) = LongestHistory(Len(simulations))
          /\ \A b \in 1 .. Len(boxes) :
               boxes[b] = [ j \in 1 .. Len(Having(b)) |-> Having(b)[j].history[b] ]
          /\ boxplot_data(simulations) = boxes)
  /\ [][ (pc = "done" \/ pc = "scatter_drawn") =>
           (simulations' = simulations /\ rates' = rates) ]_vars

\* C17 witness: both views of a population of two actors whose histories differ
\* in length.
C17_Witness ==
  /\ pc = "saved"
  /\ Len(simulations) = 2
  /\ Len(simulations[1].history) < Len(simulations[2].history)
  /\ Len(boxes) >= 3
  /\ Len(boxes[1]) = 2
  /\ Len(boxes[3]) = 1
  /\ Len(scatter) >= 4

\* The non-terminal levels of the generated table whose upgrade probability is 0.
BlockedLevels ==
  { level \in 0 .. params.max_level - 1 : At(rates, level).upgrade = 0 }

Min(S) == CHOOSE x \in S : \A y \in S : x <= y

AllAtMax ==
  /\ pc \notin { "generate", "create" }
  /\ \A k \in Actors : simulations[k].level = params.max_level

\* C13: when the upgrade probability is positive at every non-terminal level,
\* under fair outcome selection every actor eventually reaches max_level and
\* stays there.
C13_EveryActorReachesMax ==
  (\A level \in 0 .. params.max_level - 1 : gen_upgrade_rate(params, level) > 0)
    => <>[]AllAtMax

\* C14: with the worked scenario's parameters and a population of one actor the
\* run loop terminates, under fair outcome selection.
C14_ScenarioLoopTerminates ==
  (params = scenario_params /\ pc = "loop" /\ Len(simulations) = 1) ~> (pc = "done")

\* C14 witness: the worked scenario's single actor has climbed to max_level and
\* the loop has ended.
C14_Witness ==
  /\ params = scenario_params
  /\ Len(simulations) = 1
  /\ pc = "done"
  /\ iterations = MaxCount
  /\ simulations[1].level = params.max_level
  /\ Len(simulations[1].history) = params.max_level + 1

\* C15: the loop has no round cap: a new round can start whenever the previous
\* one reported that not every actor is maxed; and when the upgrade probability
\* is 0 at some non-terminal level and min_downgrade_level >= 1, a non-empty
\* population never leaves the loop and no actor rises above the lowest such level.
C15_NoCapAndBlockedLoopRunsForever ==
  /\ (pc = "loop" /\ ~all_maxed) => ENABLED StartRoundLive
  /\ ( /\ pc \notin { "generate", "create" }
       /\ Len(simulations) >= 1
       /\ params.min_downgrade_level >= 1
       /\ BlockedLevels # {} )
     => /\ pc # "done"
        /\ ~all_maxed
        /\ \A k \in Actors :
             /\ simulations[k].level >= 0
             /\ simulations[k].level <= Min(BlockedLevels)

C15_Witness ==
  /\ pc = "loop"
  /\ ~all_maxed
  /\ iterations = MaxCount
  /\ params.min_downgrade_level >= 1
  /\ BlockedLevels # {}
  /\ Min(BlockedLevels) >= 1
  /\ \E k \in Actors : simulations[k].level = Min(BlockedLevels)
  /\ \A k \in Actors : simulations[k].attempt_count = MaxCount

====
